---- MODULE Spec2Model ----
(***************************************************************************)
(* Text2Speech backend: the two inference pipelines of backend/model.py    *)
(* (predict_params, detect_language) and the two JSON endpoints of         *)
(* backend/app.py that call them.                                          *)
(*                                                                         *)
(* Representation.  A text is a sequence of Unicode code points.  A float  *)
(* that the code obtains by dividing two integers is kept as the exact     *)
(* fraction <<numerator, denominator>>; a denominator of 0 stands for the  *)
(* ZeroDivisionError Python raises.  The transcendental parts (exp in the  *)
(* sigmoid and in the softmax) are computed in fixed point.                *)
(***************************************************************************)
EXTENDS Integers, Sequences, FiniteSets, TLC

VARIABLES pitch_rate_nn, lang_nn, th, call

vars == <<pitch_rate_nn, lang_nn, th, call>>

-----------------------------------------------------------------------------
(* Bounds of the model.                                                    *)

\* longest enumerated input text (fixture texts of the spec are added)
MaxLen == 3
\* process starts differ in the seed of the random weight initialisation
MaxSeed == 1

-----------------------------------------------------------------------------
(* Integer and fraction helpers.                                           *)

Max(a, b) == IF a >= b THEN a ELSE b

Abs(a) == IF a < 0 THEN -a ELSE a

RECURSIVE Gcd(_, _)
Gcd(a, b) == IF b = 0 THEN a ELSE Gcd(b, a % b)

\* Python's a / b on integers: the exact quotient, or ZeroDivisionError (den 0)
Div(a, b) ==
    IF b = 0 THEN <<0, 0>>
    ELSE LET g == Gcd(Abs(a), b) IN <<a \div g, b \div g>>

Float(a) == <<a, 1>>

\* comparisons of fractions with positive denominators
RatLE(p, q) ==
    IF p[2] = q[2] THEN p[1] <= q[1] ELSE p[1] * q[2] <= q[1] * p[2]

RatEq(p, q) ==
    IF p[2] = q[2] THEN p[1] = q[1] ELSE p[1] * q[2] = q[1] * p[2]

Lcm(a, b) == (a \div Gcd(a, b)) * b

RatMin(p, q) == IF RatLE(p, q) THEN p ELSE q

RECURSIVE SumSeq(_)
SumSeq(s) == IF s = <<>> THEN 0 ELSE Head(s) + SumSeq(Tail(s))

\* sum(...) over a generator of booleans: the number of true ones
CountTrue(flags) == Cardinality({i \in DOMAIN flags : flags[i]})

\* round num/den (den > 0) to the nearest integer, ties to the even one: round()
RoundHalfEven(num, den) ==
    LET q == num \div den
        r == num % den
    IN  IF 2 * r < den THEN q
        ELSE IF 2 * r > den THEN q + 1
        ELSE IF q % 2 = 0 THEN q ELSE q + 1

-----------------------------------------------------------------------------
(* Python str operations on code points (Basic Latin, Latin-1, Devanagari, *)
(* and the two characters whose lower-case form leaves their block).       *)

\* str.lower() of one character: a string, since U+0130 lowers to two characters
Lower(c) ==
    IF c \in 65..90 THEN <<c + 32>>
    ELSE IF c \in 192..222 /\ c # 215 THEN <<c + 32>>
    ELSE IF c = 304 THEN <<105, 775>>
    ELSE IF c = 8490 THEN <<107>>
    ELSE <<c>>

RECURSIVE LowerStr(_)
LowerStr(t) == IF t = <<>> THEN <<>> ELSE Lower(Head(t)) \o LowerStr(Tail(t))

\* str.isalnum() of one character
IsAlnum(c) ==
    \/ c \in 48..57 \/ c \in 65..90 \/ c \in 97..122
    \/ c \in {170, 178, 179, 181, 185, 186, 188, 189, 190}
    \/ c \in 192..214 \/ c \in 216..246 \/ c \in 248..255
    \/ c \in {304, 8490}
    \/ c \in 2308..2361 \/ c \in {2365, 2384} \/ c \in 2392..2401
    \/ c \in 2406..2415 \/ c \in 2417..2431

\* s <= t for Python strings: lexicographic by code point
RECURSIVE StrLE(_, _)
StrLE(s, t) ==
    IF s = <<>> THEN TRUE
    ELSE IF t = <<>> THEN FALSE
    ELSE IF Head(s) < Head(t) THEN TRUE
    ELSE IF Head(s) > Head(t) THEN FALSE
    ELSE StrLE(Tail(s), Tail(t))

\* s in t for Python strings: s occurs in t as a substring
StrIn(s, t) ==
    \E i \in 0..(Len(t) - Len(s)) : \A k \in 1..Len(s) : t[i + k] = s[k]

\* str.split(): the maximal runs of non-space characters, in order
RECURSIVE SplitFrom(_, _)
SplitFrom(s, cur) ==
    IF s = <<>> THEN (IF cur = <<>> THEN <<>> ELSE <<cur>>)
    ELSE IF Head(s) = 32
         THEN (IF cur = <<>> THEN <<>> ELSE <<cur>>) \o SplitFrom(Tail(s), <<>>)
         ELSE SplitFrom(Tail(s), Append(cur, Head(s)))

Split(s) == SplitFrom(s, <<>>)

-----------------------------------------------------------------------------
(* Fixed-point exp, the kernel of torch's Sigmoid and softmax.             *)

\* a * b / 10^6 without leaving 32-bit integers (a, b in 0..10^6)
MulFix(a, b) == (a * (b \div 1000)) \div 1000 + (a * (b % 1000)) \div 1000000

\* 10^6 * exp(-i), i = 0..14
ExpInt == <<1000000, 367879, 135335, 49787, 18316, 6738, 2479, 912, 335, 123,
            45, 17, 6, 2, 1>>

\* 10^6 * exp(-a / 10), a = 0..9
ExpTenth == <<1000000, 904837, 818731, 740818, 670320, 606531, 548812, 496585,
              449329, 406570>>

\* 10^6 * exp(-b / 100), b = 0..9
ExpHundredth == <<1000000, 990050, 980199, 970446, 960789, 951229, 941765,
                  932394, 923116, 913931>>

\* 10^6 * exp(-d / 10^5) for an integer d >= 0: the argument is split into its
\* integer part, tenths, hundredths and a rest below 0.01 (Taylor to 2nd order)
ExpNeg(d) ==
    LET i == d \div 100000
        a == (d \div 10000) % 10
        b == (d \div 1000) % 10
        s == d % 1000
        rest == 1000000 - 10 * s + (s * s) \div 20000
    IN  IF i > 14 THEN 0
        ELSE MulFix(MulFix(MulFix(ExpInt[i + 1], ExpTenth[a + 1]),
                           ExpHundredth[b + 1]), rest)

\* num/den (num >= 0, den > 0) in units of 10^-k, rounded up, by long division
RECURSIVE CeilDigits(_, _, _)
CeilDigits(num, den, k) ==
    IF k = 0 THEN (num \div den) + (IF num % den = 0 THEN 0 ELSE 1)
    ELSE LET q == num \div den
             r == num % den
         IN  q * 10 ^ k + CeilDigits(10 * r, den, k - 1)

-----------------------------------------------------------------------------
(* Pitch/rate pipeline (model.py lines 8-48).                              *)

\* nn.Linear(3, 16): number of hidden units
Hidden == 16

\* ch.lower() in "aeiou"
IsVowel(ch) == StrIn(Lower(ch), <<97, 101, 105, 111, 117>>)

\* ch in ",.;!?"
IsPunct(ch) == ch \in {44, 46, 59, 33, 63}

\* the same with the length normalised by 100 characters
LengthNormPercent(n) == RatMin(Div(n, 100), Float(1))

\* length_norm = min(n / 200.0, 1.0), in both extractors
LengthNorm(n) == RatMin(Div(n, 200), Float(1))

\* _text_features: [length_norm, vowel_ratio, punct_ratio]
text_features(text) ==
    LET t == text
        n == Len(t)
    IN  IF n = 0 THEN <<Float(0), Float(0), Float(0)>>
        ELSE LET vowels == CountTrue([i \in DOMAIN t |-> IsVowel(t[i])])
                 punct == CountTrue([i \in DOMAIN t |-> IsPunct(t[i])])
                 length_norm == LengthNorm(n)
                 vowel_ratio == Div(vowels, n)
                 punct_ratio == Div(punct, n)
             IN  <<length_norm, vowel_ratio, punct_ratio>>

\* a feature tensor holds no value when a division in its extractor raised
Raised(x) == \E i \in DOMAIN x : x[i][2] = 0

\* torch.tensor(..., dtype=float32) of a fraction, in thousandths
ToMilli(p) == (1000 * p[1]) \div p[2]

\* nn.ReLU
ReLU(v) == IF v < 0 THEN 0 ELSE v

\* the network without its last layer: the raw output, in ten-thousandths
SigmoidMissing(z) == z \div 100

\* nn.Sigmoid of z (in millionths), in ten-thousandths: 1 / (1 + exp(-z))
Sigmoid(z) ==
    LET e == ExpNeg(Abs(z) \div 10) \div 100
    IN  IF z >= 0 THEN 100000000 \div (10000 + e)
        ELSE (10000 * e) \div (10000 + e)

\* PitchRateNN.forward: Linear(3,16), ReLU, Linear(16,2), Sigmoid
PitchRateForward(nn, x) ==
    LET xm == [j \in 1..3 |-> ToMilli(x[j])]
        h == [k \in 1..Hidden |->
                ReLU(SumSeq([j \in 1..3 |-> nn.W1[k][j] * xm[j]])
                     + 1000 * nn.b1[k]) \div 1000]
        z == [o \in 1..2 |->
                SumSeq([k \in 1..Hidden |-> nn.W2[o][k] * h[k]])
                + 1000 * nn.b2[o]]
    IN  [o \in 1..2 |-> Sigmoid(z[o])]

\* round(0.5 + float(y) * 1.5, 2), in hundredths (y in ten-thousandths)
MapToRange(y) == RoundHalfEven(10000 + 3 * y, 200)

\* predict_params: (pitch, rate) in hundredths, or the error the extractor raised
predict_params(nn, text) ==
    LET x == text_features(text)
    IN  IF Raised(x) THEN [raised |-> TRUE, x |-> x, value |-> <<>>]
        ELSE LET y == PitchRateForward(nn, x)
             IN  [raised |-> FALSE, x |-> x,
                  value |-> <<MapToRange(y[1]), MapToRange(y[2])>>]

-----------------------------------------------------------------------------
(* Language pipeline (model.py lines 53-111).                              *)

LANG_LABELS == <<"en", "hi", "es", "hinglish">>

\* the same weights with a bias left on the second class
TinyLangNNBiased ==
    [W |-> << << 20, -20,  2, 3, 1, -2>>,
              <<-20,  30,  0, 0, 1, -5>>,
              << 15, -20, 12, 0, 1, -2>>,
              << 15, -15,  0, 1, 1, 25>> >>,
     b |-> <<0, 1, 0, 0>>]

\* TinyLangNN.__init__: the handcrafted weights W (rows en, hi, es, hinglish;
\* columns latin_ratio, devanagari_ratio, tilde_count, exclaim_count,
\* length_norm, hinglish_kw_ratio) and the bias b, both in tenths
TinyLangNN ==
    [W |-> << << 20, -20,  2, 3, 1, -2>>,
              <<-20,  30,  0, 0, 1, -5>>,
              << 15, -20, 12, 0, 1, -2>>,
              << 15, -15,  0, 1, 1, 25>> >>,
     b |-> <<0, 0, 0, 0>>]

\* TinyLangNN.forward: W x + b; the four logits are exact fractions over one
\* common denominator
LangForward(nn, x) ==
    LET q == 10 * Lcm(Lcm(Lcm(x[1][2], x[2][2]), Lcm(x[3][2], x[4][2])),
                      Lcm(x[5][2], x[6][2]))
        term(i, j) == nn.W[i][j] * x[j][1] * (q \div (10 * x[j][2]))
    IN  [i \in 1..4 |->
            <<SumSeq([j \in 1..6 |-> term(i, j)]) + nn.b[i] * (q \div 10), q>>]

\* the character count without its guard against the empty text
CharCountUnguarded(t) == Len(t)

\* n = max(len(t), 1)
CharCount(t) == Max(Len(t), 1)

\* 'a' <= ch.lower() <= 'z' or ch in <the seven lower-case accented letters
\* U+00E1 E9 ED F3 FA FC F1>
IsLatin(ch) ==
    \/ StrLE(<<97>>, Lower(ch)) /\ StrLE(Lower(ch), <<122>>)
    \/ ch \in {225, 233, 237, 243, 250, 252, 241}

\* '\u0900' <= ch <= '\u097F'
IsDevanagari(ch) == 2304 <= ch /\ ch <= 2431

\* t.count(U+00F1) + t.count(U+00D1)
IsTilde(ch) == ch = 241 \/ ch = 209

\* t.count('!')
IsExclam(ch) == ch = 33

\* ''.join(ch if ch.isalnum() else ' ' for ch in t.lower()).split()
Tokens(t) ==
    LET low == LowerStr(t)
    IN  Split([i \in DOMAIN low |-> IF IsAlnum(low[i]) THEN low[i] ELSE 32])

\* the lexicon with its first word misspelt
hinglish_kw_typo ==
    {
      (* hia *) <<104, 105, 97>>,
      (* hain *) <<104, 97, 105, 110>>,
      (* nahi *) <<110, 97, 104, 105>>,
      (* haan *) <<104, 97, 97, 110>>,
      (* kyu *) <<107, 121, 117>>,
      (* kyun *) <<107, 121, 117, 110>>,
      (* kya *) <<107, 121, 97>>,
      (* kaise *) <<107, 97, 105, 115, 101>>,
      (* kab *) <<107, 97, 98>>,
      (* kal *) <<107, 97, 108>>,
      (* bhai *) <<98, 104, 97, 105>>,
      (* dost *) <<100, 111, 115, 116>>,
      (* bhen *) <<98, 104, 101, 110>>,
      (* acha *) <<97, 99, 104, 97>>,
      (* achha *) <<97, 99, 104, 104, 97>>,
      (* accha *) <<97, 99, 99, 104, 97>>,
      (* theek *) <<116, 104, 101, 101, 107>>,
      (* thik *) <<116, 104, 105, 107>>,
      (* haanji *) <<104, 97, 97, 110, 106, 105>>,
      (* yaar *) <<121, 97, 97, 114>>,
      (* sab *) <<115, 97, 98>>,
      (* bahut *) <<98, 97, 104, 117, 116>>,
      (* thoda *) <<116, 104, 111, 100, 97>>,
      (* zyada *) <<122, 121, 97, 100, 97>>
    }

\* the Hinglish lexicon
hinglish_kw ==
    {
      (* hai *) <<104, 97, 105>>,
      (* hain *) <<104, 97, 105, 110>>,
      (* nahi *) <<110, 97, 104, 105>>,
      (* haan *) <<104, 97, 97, 110>>,
      (* kyu *) <<107, 121, 117>>,
      (* kyun *) <<107, 121, 117, 110>>,
      (* kya *) <<107, 121, 97>>,
      (* kaise *) <<107, 97, 105, 115, 101>>,
      (* kab *) <<107, 97, 98>>,
      (* kal *) <<107, 97, 108>>,
      (* bhai *) <<98, 104, 97, 105>>,
      (* dost *) <<100, 111, 115, 116>>,
      (* bhen *) <<98, 104, 101, 110>>,
      (* acha *) <<97, 99, 104, 97>>,
      (* achha *) <<97, 99, 104, 104, 97>>,
      (* accha *) <<97, 99, 99, 104, 97>>,
      (* theek *) <<116, 104, 101, 101, 107>>,
      (* thik *) <<116, 104, 105, 107>>,
      (* haanji *) <<104, 97, 97, 110, 106, 105>>,
      (* yaar *) <<121, 97, 97, 114>>,
      (* sab *) <<115, 97, 98>>,
      (* bahut *) <<98, 97, 104, 117, 116>>,
      (* thoda *) <<116, 104, 111, 100, 97>>,
      (* zyada *) <<122, 121, 97, 100, 97>>
    }

\* _lang_features: [latin_ratio, dev_ratio, tilde, exclam, length_norm,
\* hinglish_kw_ratio]
lang_features(text) ==
    LET t == text
        n == CharCount(t)
        latin == CountTrue([i \in DOMAIN t |-> IsLatin(t[i])])
        dev == CountTrue([i \in DOMAIN t |-> IsDevanagari(t[i])])
        tilde == CountTrue([i \in DOMAIN t |-> IsTilde(t[i])])
        exclam == CountTrue([i \in DOMAIN t |-> IsExclam(t[i])])
        latin_ratio == Div(latin, n)
        dev_ratio == Div(dev, n)
        length_norm == LengthNorm(n)
        tokens == Tokens(t)
        kw_matches == CountTrue([i \in DOMAIN tokens |-> tokens[i] \in hinglish_kw])
        hinglish_kw_ratio ==
            IF tokens # <<>> THEN Div(kw_matches, Max(Len(tokens), 1))
            ELSE Float(0)
    IN  <<latin_ratio, dev_ratio, Float(tilde), Float(exclam), length_norm,
          hinglish_kw_ratio>>

\* F.softmax(logits, dim=-1): exp(l_i - max l) / sum_j exp(l_j - max l); each
\* probability is the fraction <<e_i, sum e>> of fixed-point exponentials
softmax(logits) ==
    LET mx == CHOOSE m \in {logits[i] : i \in 1..4} :
                  \A j \in 1..4 : RatLE(logits[j], m)
        d(i) == <<mx[1] - logits[i][1], mx[2]>>
        e == [i \in 1..4 |-> ExpNeg(CeilDigits(d(i)[1], d(i)[2], 5))]
        s == SumSeq(e)
    IN  [i \in 1..4 |-> <<e[i], s>>]

\* the index of the last maximal value
argmax_last(p) ==
    CHOOSE i \in DOMAIN p :
        /\ \A j \in DOMAIN p : RatLE(p[j], p[i])
        /\ \A j \in DOMAIN p : j > i => ~RatLE(p[i], p[j])

\* torch.argmax: the index of the first maximal value
argmax(p) ==
    CHOOSE i \in DOMAIN p :
        /\ \A j \in DOMAIN p : RatLE(p[j], p[i])
        /\ \A j \in DOMAIN p : j < i => ~RatLE(p[i], p[j])

\* round(float(p), 2), in thousandths
round2(p) == 10 * RoundHalfEven(100 * p[1], p[2])

\* round(float(p), 3), in thousandths
round3(p) == RoundHalfEven(1000 * p[1], p[2])

\* detect_language: the label and the scores (in thousandths), with the
\* intermediate tensors, or the error the extractor raised
detect_language(nn, text) ==
    LET x == lang_features(text)
    IN  IF Raised(x)
        THEN [raised |-> TRUE, x |-> x, logits |-> <<>>, probs |-> <<>>,
              scores |-> <<>>, lang |-> "none"]
        ELSE LET logits == LangForward(nn, x)
                 probs == softmax(logits)
                 scores == [lbl \in {LANG_LABELS[i] : i \in 1..4} |->
                              round3(probs[CHOOSE i \in 1..4 :
                                               LANG_LABELS[i] = lbl])]
                 lang == LANG_LABELS[argmax(probs)]
             IN  [raised |-> FALSE, x |-> x, logits |-> logits,
                  probs |-> probs, scores |-> scores, lang |-> lang]

-----------------------------------------------------------------------------
(* Process start: the module-level singletons of model.py.                 *)

\* the n-th draw of torch's generator started from seed s (a counter-based
\* congruential hash stands for the framework's generator)
Draw(s, n) == (75 * (((131 * s + n) * (131 * s + n)) % 65537) + 74) % 65537

\* nn.Linear's default initialisation: uniform in [-bound, bound] thousandths,
\* bound = 1/sqrt(fan_in)
Uniform(s, n, bound) == (Draw(s, n) % (2 * bound + 1)) - bound

\* _pitch_rate_nn = PitchRateNN(): weights and biases in thousandths
PitchRateNN(seed) ==
    [W1 |-> [k \in 1..Hidden |->
                [j \in 1..3 |-> Uniform(seed, 3 * (k - 1) + j, 577)]],
     b1 |-> [k \in 1..Hidden |-> Uniform(seed, 3 * Hidden + k, 577)],
     W2 |-> [o \in 1..2 |->
                [k \in 1..Hidden |->
                    Uniform(seed, 4 * Hidden + Hidden * (o - 1) + k, 250)]],
     b2 |-> [o \in 1..2 |-> Uniform(seed, 6 * Hidden + o, 250)]]

-----------------------------------------------------------------------------
(* Inputs.                                                                 *)

\* a A h i n-tilde N-tilde ! space and the Devanagari letter NA
Alphabet == {97, 65, 104, 105, 241, 209, 33, 32, 2344}

\* "yaar kya haal hai"
YaarKyaHaalHai ==
    <<121, 97, 97, 114, 32, 107, 121, 97, 32, 104, 97, 97, 108, 32, 104, 97, 105>>

\* the Devanagari greeting namaste (U+0928 092E 0938 094D 0924 0947)
Namaste == <<2344, 2350, 2360, 2381, 2340, 2375>>

Texts ==
    UNION {[1..k -> Alphabet] : k \in 0..MaxLen} \cup {YaarKyaHaalHai, Namaste}

\* texts sent over HTTP: "", "hai", N-tilde followed by "!", and "A"
RequestTexts == {<<>>, <<104, 97, 105>>, <<209, 33>>, <<65>>}

\* a POST body: not JSON at all, the JSON value null, or a JSON object with or
\* without the field text
Bodies ==
    {[kind |-> "malformed", has_text |-> FALSE, text |-> <<>>],
     [kind |-> "null", has_text |-> FALSE, text |-> <<>>],
     [kind |-> "object", has_text |-> FALSE, text |-> <<>>]}
    \cup {[kind |-> "object", has_text |-> TRUE, text |-> t] : t \in RequestTexts}

Routes == {"nn_params", "nn_language"}

\* the threads of the development server
Threads == {"w1", "w2"}

-----------------------------------------------------------------------------
(* HTTP layer (app.py lines 19-31).                                        *)

NoRequest == [kind |-> "none", has_text |-> FALSE, text |-> <<>>]

NoResponse == [status |-> 0, json |-> [none |-> TRUE]]

BadRequest == [status |-> 400, json |-> [error |-> "Bad Request"]]

InternalServerError == [status |-> 500, json |-> [error |-> "Internal Server Error"]]

Idle == [pc |-> "idle", route |-> "none", body |-> NoRequest, text |-> <<>>,
         resp |-> NoResponse]

\* data.get("text", "") on data = request.get_json() or {}
TextOf(body) ==
    IF body.kind = "object" /\ body.has_text THEN body.text ELSE <<>>

\* lines 21-22 and 28-29: request.get_json() raises BadRequest on a body that is
\* not JSON, and the handler ends there; otherwise the text is taken
Receive(t, route, body) ==
    /\ th[t].pc = "idle"
    /\ th' = [th EXCEPT ![t] =
                IF body.kind = "malformed"
                THEN [pc |-> "idle", route |-> route, body |-> body,
                      text |-> <<>>, resp |-> BadRequest]
                ELSE [pc |-> "handling", route |-> route, body |-> body,
                      text |-> TextOf(body), resp |-> NoResponse]]
    /\ UNCHANGED <<pitch_rate_nn, lang_nn, call>>

\* a handler that builds a fresh network for the request it serves
nn_params_reinit(t) ==
    /\ th[t].pc = "handling"
    /\ th[t].route = "nn_params"
    /\ \E seed \in 0..MaxSeed :
          /\ pitch_rate_nn' = PitchRateNN(seed)
          /\ LET r == predict_params(pitch_rate_nn', th[t].text)
             IN  th' = [th EXCEPT ![t].pc = "idle",
                                  ![t].resp =
                                      [status |-> 200,
                                       json |-> [pitch |-> r.value[1],
                                                 rate |-> r.value[2]]]]
    /\ UNCHANGED <<lang_nn, call>>

\* nn_params, lines 23-24: predict_params(text) and jsonify
nn_params(t) ==
    /\ th[t].pc = "handling"
    /\ th[t].route = "nn_params"
    /\ LET r == predict_params(pitch_rate_nn, th[t].text)
       IN  th' = [th EXCEPT ![t].pc = "idle",
                            ![t].resp =
                                IF r.raised THEN InternalServerError
                                ELSE [status |-> 200,
                                      json |-> [pitch |-> r.value[1],
                                                rate |-> r.value[2]]]]
    /\ UNCHANGED <<pitch_rate_nn, lang_nn, call>>

\* nn_language, lines 30-31: detect_language(text) and jsonify
nn_language(t) ==
    /\ th[t].pc = "handling"
    /\ th[t].route = "nn_language"
    /\ LET r == detect_language(lang_nn, th[t].text)
       IN  th' = [th EXCEPT ![t].pc = "idle",
                            ![t].resp =
                                IF r.raised THEN InternalServerError
                                ELSE [status |-> 200,
                                      json |-> [language |-> r.lang,
                                                scores |-> r.scores]]]
    /\ UNCHANGED <<pitch_rate_nn, lang_nn, call>>

NoCall == [fn |-> "none", text |-> <<>>, pc |-> "none"]

Init ==
    /\ \E seed \in 0..MaxSeed : pitch_rate_nn = PitchRateNN(seed)
    /\ lang_nn = TinyLangNN
    /\ th = [t \in Threads |-> Idle]
    /\ call = NoCall

Next ==
    \/ \E t \in Threads, route \in Routes, body \in Bodies : Receive(t, route, body)
    \/ \E t \in Threads : nn_params(t)
    \/ \E t \in Threads : nn_language(t)

Spec == Init /\ [][Next]_vars

-----------------------------------------------------------------------------
(* The two core functions called directly, on every text of Texts.         *)

CoreFunctions == {"predict_params", "detect_language"}

InitCore ==
    /\ \E seed \in 0..MaxSeed : pitch_rate_nn = PitchRateNN(seed)
    /\ lang_nn = TinyLangNN
    /\ th = [t \in Threads |-> Idle]
    /\ \E fn \in CoreFunctions, text \in Texts :
          call = [fn |-> fn, text |-> text, pc |-> "called"]

CallPredictParams ==
    /\ call.pc = "called"
    /\ call.fn = "predict_params"
    /\ call' = [fn |-> call.fn, text |-> call.text, pc |-> "returned",
                ret |-> predict_params(pitch_rate_nn, call.text)]
    /\ UNCHANGED <<pitch_rate_nn, lang_nn, th>>

CallDetectLanguage ==
    /\ call.pc = "called"
    /\ call.fn = "detect_language"
    /\ call' = [fn |-> call.fn, text |-> call.text, pc |-> "returned",
                ret |-> detect_language(lang_nn, call.text)]
    /\ UNCHANGED <<pitch_rate_nn, lang_nn, th>>

NextCore == CallPredictParams \/ CallDetectLanguage

SpecCore == InitCore /\ [][NextCore]_vars

-----------------------------------------------------------------------------
(* Properties.                                                             *)

PredictReturned == call.pc = "returned" /\ call.fn = "predict_params"

DetectReturned == call.pc = "returned" /\ call.fn = "detect_language"

LabelSet == {LANG_LABELS[i] : i \in 1..4}

LabelIndex(lbl) == CHOOSE i \in 1..4 : LANG_LABELS[i] = lbl

\* C1: whatever the text and the initial weights, predict_params returns a
\* pair (pitch, rate) with both values in [0.5, 2.0] (50..200 hundredths).
C1_PitchRateInRange ==
    PredictReturned =>
        /\ ~call.ret.raised
        /\ Len(call.ret.value) = 2
        /\ \A i \in 1..2 : 50 <= call.ret.value[i] /\ call.ret.value[i] <= 200

C1_Witness ==
    /\ PredictReturned
    /\ call.text = YaarKyaHaalHai
    /\ \A i \in 1..2 : call.ret.value[i] \in 50..200

\* C2: the scores returned by detect_language have exactly the keys en, hi,
\* es, hinglish, each value lies in [0, 1] (0..1000 thousandths), and the four
\* rounded values sum to 1.0 within 0.001.
C2_ScoresDistribution ==
    DetectReturned =>
        /\ ~call.ret.raised
        /\ DOMAIN call.ret.scores = {"en", "hi", "es", "hinglish"}
        /\ \A l \in DOMAIN call.ret.scores :
              0 <= call.ret.scores[l] /\ call.ret.scores[l] <= 1000
        /\ Abs(call.ret.scores["en"] + call.ret.scores["hi"]
               + call.ret.scores["es"] + call.ret.scores["hinglish"] - 1000) <= 1

C2_Witness ==
    /\ DetectReturned
    /\ call.text = Namaste
    /\ call.ret.scores["en"] + call.ret.scores["hi"]
       + call.ret.scores["es"] + call.ret.scores["hinglish"] # 1000
    /\ Abs(call.ret.scores["en"] + call.ret.scores["hi"]
           + call.ret.scores["es"] + call.ret.scores["hinglish"] - 1000) = 1

\* C3: the label is the class of maximal raw probability, which is the class
\* of maximal logit, the lowest index winning a tie; so the label's rounded
\* score is at least every other rounded score.
C3_LabelIsFirstArgmax ==
    DetectReturned =>
        LET r == call.ret
            k == LabelIndex(r.lang)
        IN  /\ r.lang \in LabelSet
            /\ \A j \in 1..4 : r.probs[j][1] <= r.probs[k][1]
            /\ \A j \in 1..(k - 1) : r.probs[j][1] < r.probs[k][1]
            /\ \A j \in 1..4 : r.logits[j][1] <= r.logits[k][1]
            /\ \A j \in 1..(k - 1) : r.logits[j][1] < r.logits[k][1]
            /\ \A l \in LabelSet : r.scores[l] <= r.scores[r.lang]

C3_Witness ==
    /\ DetectReturned
    /\ call.text = <<32>>
    /\ \A i \in 1..4 : call.ret.logits[i] = call.ret.logits[1]
    /\ call.ret.lang = "en"

\* C4: neither function fails on any text: no division by a zero character or
\* token count is made, and a well-defined numeric result is returned.
C4_NoFailurePath ==
    call.pc = "returned" =>
        /\ ~call.ret.raised
        /\ \A i \in DOMAIN call.ret.x : call.ret.x[i][2] > 0
        /\ call.fn = "predict_params" =>
              call.ret.value \in Seq(Int) /\ Len(call.ret.value) = 2
        /\ call.fn = "detect_language" =>
              /\ call.ret.lang \in LabelSet
              /\ \A l \in LabelSet : call.ret.scores[l] \in Int

C4_Witness ==
    /\ DetectReturned
    /\ call.text = <<>>
    /\ ~call.ret.raised
    /\ call.ret.x[1] = <<0, 1>>

\* the same function, called with the same text, answered the same
Deterministic ==
    \A t1, t2 \in Threads :
        (/\ th[t1].resp.status = 200
         /\ th[t2].resp.status = 200
         /\ th[t1].route = th[t2].route
         /\ th[t1].text = th[t2].text)
        => th[t1].resp = th[t2].resp

\* C5: no invocation, in any interleaving, changes the weights or biases of
\* either network, and two invocations of the same function with the same
\* text return the same result whatever ran between or beside them.
C5_WeightsReadOnly ==
    /\ [][pitch_rate_nn' = pitch_rate_nn /\ lang_nn' = lang_nn]_vars
    /\ []Deterministic

C5_Witness ==
    /\ th["w1"].resp.status = 200
    /\ th["w2"].resp.status = 200
    /\ th["w1"].route = "nn_params"
    /\ th["w2"].route = "nn_params"
    /\ th["w1"].text = <<104, 97, 105>>
    /\ th["w2"].text = <<104, 97, 105>>
    /\ th["w1"].pc = "idle"
    /\ th["w2"].pc = "idle"
    /\ th["w1"].resp = th["w2"].resp

\* C6 as stated: on the empty text both extractors return an all-zero vector
\* (length_norm included) and the language logits are [0, 0, 0, 0].
C6_EmptyAllZero ==
    (call.pc = "returned" /\ call.text = <<>>) =>
        /\ \A i \in DOMAIN call.ret.x : call.ret.x[i] = <<0, 1>>
        /\ call.fn = "detect_language" =>
              \A i \in 1..4 : call.ret.logits[i][1] = 0

\* C6, amended: on the empty text the pitch/rate extractor returns [0, 0, 0];
\* the language extractor returns [0, 0, 0, 0, 0.005, 0], its length_norm
\* being min(max(0, 1) / 200, 1), and the four language logits all equal
\* 0.1 * 0.005 = 0.0005.
C6_EmptyFeatures ==
    (call.pc = "returned" /\ call.text = <<>>) =>
        /\ call.fn = "predict_params" =>
              call.ret.x = <<<<0, 1>>, <<0, 1>>, <<0, 1>>>>
        /\ call.fn = "detect_language" =>
              /\ call.ret.x =
                   <<<<0, 1>>, <<0, 1>>, <<0, 1>>, <<0, 1>>, <<1, 200>>, <<0, 1>>>>
              /\ \A i \in 1..4 : RatEq(call.ret.logits[i], <<1, 2000>>)

C6_Witness ==
    /\ DetectReturned
    /\ call.text = <<>>
    /\ call.ret.x[5] = <<1, 200>>
    /\ call.ret.logits[1] = call.ret.logits[4]

\* C7: detect_language("") returns the uniform scores en, hi, es, hinglish
\* = 0.25 each and the label en.
C7_EmptyUniform ==
    (DetectReturned /\ call.text = <<>>) =>
        /\ call.ret.scores = [l \in LabelSet |-> 250]
        /\ call.ret.lang = "en"

C7_Witness ==
    /\ DetectReturned
    /\ call.text = <<>>
    /\ call.ret.lang = "en"
    /\ call.ret.scores["hinglish"] = 250

\* C8 as stated: "yaar kya haal hai" yields 4 tokens, all 4 of them in the
\* Hinglish lexicon, so hinglish_kw_ratio is exactly 1.0.
C8_AllFourMatch ==
    (DetectReturned /\ call.text = YaarKyaHaalHai) =>
        /\ Len(Tokens(call.text)) = 4
        /\ \A i \in 1..4 : Tokens(call.text)[i] \in hinglish_kw
        /\ RatEq(call.ret.x[6], <<1, 1>>)

\* C8, amended: "yaar kya haal hai" yields 4 tokens of which 3 (yaar, kya,
\* hai; not haal) are in the Hinglish lexicon, so hinglish_kw_ratio is
\* exactly 0.75.
C8_ThreeOfFourMatch ==
    (DetectReturned /\ call.text = YaarKyaHaalHai) =>
        /\ Len(Tokens(call.text)) = 4
        /\ {i \in 1..4 : Tokens(call.text)[i] \in hinglish_kw} = {1, 2, 4}
        /\ RatEq(call.ret.x[6], <<3, 4>>)

C8_Witness ==
    /\ DetectReturned
    /\ call.text = YaarKyaHaalHai
    /\ call.ret.x[6] = <<3, 4>>
    /\ call.ret.lang = "hinglish"

\* a request has been answered
Answered(t) == th[t].pc = "idle" /\ th[t].route # "none"

\* C9: a POST to /nn_params or /nn_language whose body is malformed JSON, or
\* whose JSON lacks the field text, is handled as the empty text: the answer
\* is the normal JSON result (keys pitch/rate or language/scores), no error.
C9_MalformedIsEmptyText ==
    \A t \in Threads :
        (Answered(t) /\ (th[t].body.kind = "malformed" \/ ~th[t].body.has_text))
        => /\ th[t].resp.status = 200
           /\ th[t].text = <<>>
           /\ DOMAIN th[t].resp.json =
                 (IF th[t].route = "nn_params" THEN {"pitch", "rate"}
                  ELSE {"language", "scores"})

\* the characters the claim counts as Latin: ASCII letters and the accented
\* letters of both cases
ClaimedLatin(ch) ==
    \/ ch \in 65..90 \/ ch \in 97..122
    \/ ch \in {225, 233, 237, 243, 250, 252, 241}
    \/ ch \in {193, 201, 205, 211, 218, 220, 209}

\* C10: latin_ratio is the number of ASCII letters and accented letters
\* (matched case-insensitively) over n = max(len, 1); every character counted
\* in tilde_count is counted in latin_ratio too.
C10_LatinCaseInsensitive ==
    DetectReturned =>
        LET t == call.text
            n == Max(Len(t), 1)
            claimed == CountTrue([i \in DOMAIN t |-> ClaimedLatin(t[i])])
            latin == call.ret.x[1][1] * (n \div call.ret.x[1][2])
        IN  /\ RatEq(call.ret.x[1], Div(claimed, n))
            /\ call.ret.x[3][1] <= latin

====
